---- MODULE Spec2Model ----
(***************************************************************************)
(* Tuya DIN power meter quirk (ts0601_powermeter.py): the datapoint tables *)
(* of DinPowerManufCluster and TuyaManufClusterDinPower, the constant      *)
(* attributes of the two local clusters, and the connection-status         *)
(* (command 0x25) handler, on top of the datapoint dispatcher and the      *)
(* local attribute store of the quirks library.                            *)
(***************************************************************************)
EXTENDS Integers, Sequences, FiniteSets, Bags, TLC

\* ---------------------------------------------------------------- bounds
MaxInbound == 3       \* inbound messages (reports and requests) of one behaviour

\* ---------------------------------------------------------------- inputs
\* raw datapoint payloads: 2300 and 0x00010032 (current 1, voltage_raw 50,
\* no multiple of 10 as a whole)
Values == {2300, 65586}
\* further payloads of datapoint 0x06: zero and the largest 31-bit value
SplitValues == {0, 2147483647}
\* transaction sequence numbers (t.uint8_t) and request status bytes (t.LVBytes)
TsnValues == {7, 255}
StatusValues == {<<0>>, <<2>>}

\* ---------------------------------------------------------------- values
\* An attribute value: a Python int n is num = n, den = 1; the float x / 10
\* is num = x, den = 10 (not reduced, so 5.0 is 50/10); None is kind "none".
IntVal(n) == [kind |-> "int", num |-> n, den |-> 1]
FloatDiv10(x) == [kind |-> "float", num |-> x, den |-> 10]
None == [kind |-> "none", num |-> 0, den |-> 1]

\* ---------------------------------------------------------------- clusters
\* ep_attribute of the clusters a mapping can target
EM == "electrical_measurement"     \* TuyaPowerMeasurement (ElectricalMeasurement)
MT == "smartenergy_metering"       \* TuyaElectricalMeasurement (Metering)
OO == "on_off"                     \* TuyaOnOff

POWER_WATT == 0

\* (variant: the divisor left at 1)
PowerMeasurementConstantsBad ==
    [ac_current_multiplier |-> IntVal(1), ac_current_divisor |-> IntVal(1)]
\* TuyaPowerMeasurement._CONSTANT_ATTRIBUTES
\* {AC_CURRENT_MULTIPLIER (0x0602): 1, AC_CURRENT_DIVISOR (0x0603): 1000}
PowerMeasurementConstants ==
    [ac_current_multiplier |-> IntVal(1), ac_current_divisor |-> IntVal(1000)]

\* TuyaElectricalMeasurement._CONSTANT_ATTRIBUTES
\* {0x0300 (unit_of_measure): POWER_WATT, 0x0302 (divisor): 1000}
ElectricalMeasurementConstants ==
    [unit_of_measure |-> IntVal(POWER_WATT), divisor |-> IntVal(1000)]

\* the constant attributes of each cluster hosted on the endpoint
ConstantAttributes(c) ==
    CASE c = EM -> PowerMeasurementConstants
      [] c = MT -> ElectricalMeasurementConstants
      [] OTHER  -> << >>

\* TuyaPowerMeter.replacement: the local clusters of endpoint 1
replacement == {EM, MT}

\* clusters of the store; on_off is only targeted by DinPowerManufCluster
Clusters == replacement \cup {OO}

\* the attributes of each cluster that the model keeps a cache slot for
Attributes(c) ==
    CASE c = EM -> {"rms_current", "rms_voltage", "active_power", "ac_frequency",
                    "total_reactive_power", "reactive_power", "power_factor",
                    "ac_current_multiplier", "ac_current_divisor"}
      [] c = MT -> {"current_summ_delivered", "current_summ_received",
                    "unit_of_measure", "divisor"}
      [] OTHER  -> {"on_off"}

\* ---------------------------------------------------------------- converters
\* (variant: the two halves in the wrong order)
SplitSwapped(x) == << FloatDiv10(x % 65536), IntVal(x \div 65536) >>
\* DinPowerManufCluster 0x06: lambda x: (x >> 16, (x & 0x0000FFFF) / 10)
Split(x) == << IntVal(x \div 65536), FloatDiv10(x % 65536) >>

\* (variant: true division, x / 10)
TrueDiv10(x) == FloatDiv10(x)
\* TuyaManufClusterDinPower 19 and 20: lambda x: x // 10
FloorDiv10(x) == IntVal(x \div 10)

Convert(name, x) ==
    CASE name = "split"      -> Split(x)
      [] name = "floordiv10" -> FloorDiv10(x)
      [] OTHER               -> IntVal(x)

\* ---------------------------------------------------------------- tables
\* DPToAttributeMapping(ep_attribute, attribute_name, converter=None)
Mapping(ep, names, tuple, conv) ==
    [ep_attribute |-> ep, attribute_name |-> names, is_tuple |-> tuple,
     converter |-> conv]
Entry(dp, m) == [dp |-> dp, map |-> m]

\* the entries of the dict display DinPowerManufCluster.dp_to_attribute,
\* in source order
DinPowerEntries ==
    << Entry(1,   Mapping(MT, <<"current_summ_delivered">>, FALSE, "none")),
       Entry(6,   Mapping(EM, <<"rms_current", "rms_voltage">>, TRUE, "split")),
       Entry(16,  Mapping(OO, <<"on_off">>, FALSE, "none")),
       Entry(102, Mapping(MT, <<"current_summ_received">>, FALSE, "none")),
       Entry(103, Mapping(EM, <<"active_power">>, FALSE, "none")),
       Entry(105, Mapping(EM, <<"ac_frequency">>, FALSE, "none")),
       Entry(109, Mapping(EM, <<"total_reactive_power">>, FALSE, "none")),
       Entry(110, Mapping(EM, <<"reactive_power">>, FALSE, "none")),
       Entry(111, Mapping(EM, <<"power_factor">>, FALSE, "none")) >>

\* (variant: entry 20 pasted from entry 19 with its attribute name)
ManufDinPowerEntriesPasted ==
    << Entry(17, Mapping(MT, <<"current_summ_delivered">>, FALSE, "none")),
       Entry(18, Mapping(EM, <<"rms_current">>, FALSE, "none")),
       Entry(19, Mapping(EM, <<"active_power">>, FALSE, "floordiv10")),
       Entry(20, Mapping(EM, <<"active_power">>, FALSE, "floordiv10")) >>
\* (variant: entry 20 pasted from entry 19 with its key)
ManufDinPowerEntriesDup ==
    << Entry(17, Mapping(MT, <<"current_summ_delivered">>, FALSE, "none")),
       Entry(18, Mapping(EM, <<"rms_current">>, FALSE, "none")),
       Entry(19, Mapping(EM, <<"active_power">>, FALSE, "floordiv10")),
       Entry(19, Mapping(EM, <<"rms_voltage">>, FALSE, "floordiv10")) >>
\* the entries of TuyaManufClusterDinPower.dp_to_attribute, in source order
ManufDinPowerEntries ==
    << Entry(17, Mapping(MT, <<"current_summ_delivered">>, FALSE, "none")),
       Entry(18, Mapping(EM, <<"rms_current">>, FALSE, "none")),
       Entry(19, Mapping(EM, <<"active_power">>, FALSE, "floordiv10")),
       Entry(20, Mapping(EM, <<"rms_voltage">>, FALSE, "floordiv10")) >>

\* the two manufacturer clusters of the file
BaseCluster == "DinPowerManufCluster"
DeployedCluster == "TuyaManufClusterDinPower"
ManufClusters == {BaseCluster, DeployedCluster}

\* a Python dict display: entries are inserted left to right, a repeated key
\* keeps the value of its last occurrence
RECURSIVE DictDisplay(_)
DictDisplay(es) ==
    IF es = << >> THEN << >>
    ELSE LET n    == Len(es)
             rest == DictDisplay(SubSeq(es, 1, n - 1))
         IN [k \in (DOMAIN rest) \cup {es[n].dp} |->
                IF k = es[n].dp THEN es[n].map ELSE rest[k]]

\* the dicts the two class bodies bind to dp_to_attribute
DinPowerTable == DictDisplay(DinPowerEntries)
ManufDinPowerTable == DictDisplay(ManufDinPowerEntries)

\* dict.update: the keys of b replace or extend those of a
DictUpdate(a, b) ==
    [k \in (DOMAIN a) \cup (DOMAIN b) |-> IF k \in DOMAIN b THEN b[k] ELSE a[k]]

\* data_point_handlers of each class body: every key names "_dp_2_attr_update"
DinPowerHandlers ==
    [dp \in {1, 6, 16, 102, 103, 105, 109, 110, 111} |-> "_dp_2_attr_update"]
ManufDinPowerHandlers ==
    [dp \in {17, 18, 19, 20} |-> "_dp_2_attr_update"]

\* (variant: the subclass copies and updates the inherited dicts)
ClassBodyInherited(cls) ==
    IF cls = DeployedCluster
    THEN [dp_to_attribute |->
              DictUpdate(DinPowerTable, ManufDinPowerTable),
          data_point_handlers |-> DictUpdate(DinPowerHandlers, ManufDinPowerHandlers)]
    ELSE [dp_to_attribute |-> DinPowerTable,
          data_point_handlers |-> DinPowerHandlers]
\* the class attributes a lookup on each class finds: the body of
\* TuyaManufClusterDinPower rebinds dp_to_attribute and data_point_handlers,
\* it does not copy() and update() the inherited dicts (as the file does for
\* client_commands and server_commands)
ClassBody(cls) ==
    IF cls = DeployedCluster
    THEN [dp_to_attribute |-> ManufDinPowerTable,
          data_point_handlers |-> ManufDinPowerHandlers]
    ELSE [dp_to_attribute |-> DinPowerTable,
          data_point_handlers |-> DinPowerHandlers]

dp_to_attribute(cls) == ClassBody(cls).dp_to_attribute
data_point_handlers(cls) == ClassBody(cls).data_point_handlers

\* ---------------------------------------------------------------- store
\* LocalDataCluster: the attribute cache and the read that prefers constants
EmptyStore == [c \in Clusters |-> [a \in Attributes(c) |-> None]]

\* (variant: a write that adds to the cached value)
update_attribute_add(st, c, a, v) ==
    [st EXCEPT ![c][a] = [v EXCEPT !.num = @ + st[c][a].num]]
update_attribute(st, c, a, v) == [st EXCEPT ![c][a] = v]

read(st, c, a) ==
    IF a \in DOMAIN ConstantAttributes(c) THEN ConstantAttributes(c)[a]
    ELSE st[c][a]

\* ---------------------------------------------------------------- dispatcher
RECURSIVE WriteEach(_, _, _, _, _)
WriteEach(st, c, names, vs, i) ==
    IF i > Len(names) \/ i > Len(vs) THEN st
    ELSE WriteEach(update_attribute(st, c, names[i], vs[i]), c, names, vs, i + 1)

\* TuyaMCUCluster._dp_2_attr_update
dp_2_attr_update(cls, st, r) ==
    LET tbl == dp_to_attribute(cls) IN
    IF r.dp \notin DOMAIN tbl THEN st
    ELSE LET m == tbl[r.dp]
             v == IF m.converter = "none" THEN IntVal(r.value)
                  ELSE Convert(m.converter, r.value)
         IN IF m.is_tuple
            THEN WriteEach(st, m.ep_attribute, m.attribute_name, v, 1)
            ELSE update_attribute(st, m.ep_attribute, m.attribute_name[1], v)

\* dispatch of one datapoint record: an id without a handler is dropped,
\* nothing is raised
handle_get_data(cls, st, r) ==
    IF r.dp \in DOMAIN data_point_handlers(cls)
    THEN [store |-> dp_2_attr_update(cls, st, r), outcome |-> "handled"]
    ELSE [store |-> st, outcome |-> "dropped"]

\* ---------------------------------------------------------------- heartbeat
MCU_CONNECTION_STATUS == 37     \* command id 0x25

\* (variants: the request's status echoed; the send awaited; two sends)
handle_mcu_connection_status_echo(payload) ==
    [rsp    |-> [cmd |-> MCU_CONNECTION_STATUS, tsn |-> payload.tsn,
                 status |-> payload.status, expect_reply |-> FALSE],
     tasks  |-> 1,
     awaits |-> FALSE,
     result |-> "SUCCESS"]
handle_mcu_connection_status_await(payload) ==
    [rsp    |-> [cmd |-> MCU_CONNECTION_STATUS, tsn |-> payload.tsn,
                 status |-> <<1>>, expect_reply |-> FALSE],
     tasks  |-> 1,
     awaits |-> TRUE,
     result |-> "SUCCESS"]
handle_mcu_connection_status_twice(payload) ==
    [rsp    |-> [cmd |-> MCU_CONNECTION_STATUS, tsn |-> payload.tsn,
                 status |-> <<1>>, expect_reply |-> FALSE],
     tasks  |-> 2,
     awaits |-> FALSE,
     result |-> "SUCCESS"]
\* DinPowerManufCluster.handle_mcu_connection_status(payload): builds the
\* response (tsn of the request, status b"\x01"), hands the send of command
\* 0x25 to create_catching_task without awaiting it, and returns SUCCESS
handle_mcu_connection_status(payload) ==
    [rsp    |-> [cmd |-> MCU_CONNECTION_STATUS, tsn |-> payload.tsn,
                 status |-> <<1>>, expect_reply |-> FALSE],
     tasks  |-> 1,
     awaits |-> FALSE,
     result |-> "SUCCESS"]

\* ---------------------------------------------------------------- state
VARIABLES
    cls,          \* the manufacturer cluster class receiving the traffic
    store,        \* attribute cache of every local cluster
    lastReport,   \* the datapoint report handled last, None before the first
    lastOutcome,  \* whether it was handled or dropped
    redelivered,  \* it repeated the report handled before it
    nDispatch,    \* reports handled so far
    requests,     \* bag of the connection-status requests handled
    tasks,        \* bag of the response sends scheduled, with their state
    lastResult,   \* what handle_mcu_connection_status returned last
    blocked       \* the inbound path is suspended on a send

vars == << cls, store, lastReport, lastOutcome, redelivered, nDispatch, requests, tasks,
           lastResult, blocked >>

Datapoints == {1, 6, 16, 102, 103, 105, 109, 110, 111, 17, 18, 19, 20, 2}
Reports == [dp : Datapoints, value : Values] \cup [dp : {6}, value : SplitValues]
Requests == [tsn : TsnValues, status : StatusValues]

NoReport == [dp |-> 0, value |-> 0]

Task(rsp, st) == [rsp |-> rsp, state |-> st]
Pending == {t \in BagToSet(tasks) : t.state = "pending"}

\* inbound messages handled so far
Inbound == nDispatch + BagCardinality(requests)

Bump(b, e, n) == IF n = 0 THEN b ELSE b (+) [x \in {e} |-> n]

Init ==
    /\ cls \in ManufClusters        \* either class of the file receives the traffic
    /\ store = EmptyStore
    /\ lastReport = NoReport
    /\ lastOutcome = "none"
    /\ redelivered = FALSE
    /\ nDispatch = 0
    /\ requests = EmptyBag
    /\ tasks = EmptyBag
    /\ lastResult = "none"
    /\ blocked = FALSE

\* the event loop can run the handler of the next inbound message: no
\* handler is suspended on a send
InboundReady == ~blocked

\* an inbound datapoint report
Dispatch(r) ==
    /\ InboundReady
    /\ Inbound < MaxInbound
    /\ LET out == handle_get_data(cls, store, r) IN
         /\ store' = out.store
         /\ lastOutcome' = out.outcome
    /\ lastReport' = r
    /\ redelivered' = (nDispatch > 0 /\ r = lastReport)
    /\ nDispatch' = nDispatch + 1
    /\ UNCHANGED << cls, requests, tasks, lastResult, blocked >>

\* an inbound connection-status request (command 0x25)
Request(q) ==
    /\ InboundReady
    /\ Inbound < MaxInbound
    /\ LET out == handle_mcu_connection_status(q) IN
         /\ tasks' = Bump(tasks, Task(out.rsp, "pending"), out.tasks)
         /\ lastResult' = out.result
         /\ blocked' = out.awaits
    /\ requests' = requests (+) SetToBag({q})
    /\ UNCHANGED << cls, store, lastReport, lastOutcome, redelivered, nDispatch >>

\* the background send of one response finishes
SendComplete(t) ==
    /\ t \in Pending
    /\ tasks' = (tasks (-) SetToBag({t})) (+) SetToBag({Task(t.rsp, "sent")})
    /\ blocked' = FALSE
    /\ UNCHANGED << cls, store, lastReport, lastOutcome, redelivered, nDispatch, requests,
                    lastResult >>

\* the background send raises; create_catching_task swallows the exception
SendFail(t) ==
    /\ t \in Pending
    /\ tasks' = (tasks (-) SetToBag({t})) (+) SetToBag({Task(t.rsp, "failed")})
    /\ blocked' = FALSE
    /\ UNCHANGED << cls, store, lastReport, lastOutcome, redelivered, nDispatch, requests,
                    lastResult >>

Next ==
    \/ \E r \in Reports : Dispatch(r)
    \/ \E q \in Requests : Request(q)
    \/ \E t \in BagToSet(tasks) : SendComplete(t)
    \/ \E t \in BagToSet(tasks) : SendFail(t)

Spec == Init /\ [][Next]_vars

\* ================================================================ claims
\* a report has been dispatched, and lastReport is that report
Dispatched == nDispatch > 0

\* the positional targets <<cluster, attribute>> the file gives each datapoint
\* of the deployed cluster, and the divisor of its converter (1: none)
DeployedTarget(dp) ==
    CASE dp = 17 -> [c |-> MT, a |-> "current_summ_delivered", k |-> 1]
      [] dp = 18 -> [c |-> EM, a |-> "rms_current", k |-> 1]
      [] dp = 19 -> [c |-> EM, a |-> "active_power", k |-> 10]
      [] dp = 20 -> [c |-> EM, a |-> "rms_voltage", k |-> 10]

\* the source entries of the receiving class
EntriesOf(c) == IF c = DeployedCluster THEN ManufDinPowerEntries ELSE DinPowerEntries

\* C1: after a report for a datapoint mapped to a single attribute, the target
\* attribute reads the converted value (the raw value without a converter);
\* on the deployed cluster 19 and 20 store value // 10 in active_power and
\* rms_voltage (2300 gives 230), 17 and 18 store the raw value.
C1_ScalarDispatch ==
    Dispatched =>
      /\ \A i \in DOMAIN EntriesOf(cls) :
            LET e == EntriesOf(cls)[i] IN
            (e.dp = lastReport.dp /\ ~e.map.is_tuple) =>
               read(store, e.map.ep_attribute, e.map.attribute_name[1]) =
                  IF e.map.converter = "none" THEN IntVal(lastReport.value)
                  ELSE IntVal(lastReport.value \div 10)
      /\ (cls = DeployedCluster /\ lastReport.dp \in {17, 18, 19, 20}) =>
            LET t == DeployedTarget(lastReport.dp) IN
            read(store, t.c, t.a) = IntVal(lastReport.value \div t.k)
      /\ (cls = DeployedCluster /\ lastReport = [dp |-> 19, value |-> 2300]) =>
            read(store, EM, "active_power") = IntVal(230)
      /\ (cls = DeployedCluster /\ lastReport = [dp |-> 20, value |-> 2300]) =>
            read(store, EM, "rms_voltage") = IntVal(230)

C1_Witness ==
    /\ cls = DeployedCluster
    /\ lastReport = [dp |-> 20, value |-> 2300]
    /\ read(store, EM, "rms_voltage") = IntVal(230)
    /\ read(store, EM, "active_power") = IntVal(6558)
    /\ read(store, EM, "rms_current") = IntVal(65586)

\* the keys of the tables of each class, as the file writes them
KeysOf(c) ==
    IF c = DeployedCluster THEN {17, 18, 19, 20}
    ELSE {1, 6, 16, 102, 103, 105, 109, 110, 111}

\* C2: a report whose datapoint id is no key of the receiving cluster's tables
\* is dropped: no attribute of any cluster changes and nothing is raised. On
\* the deployed cluster the keys are exactly 17..20, the ids of the base class
\* are not among them.
C2_UnmappedDropped ==
    [][ (nDispatch' > nDispatch /\ lastReport'.dp \notin KeysOf(cls))
          => (store' = store /\ lastOutcome' = "dropped") ]_vars

C2_Witness ==
    /\ cls = DeployedCluster
    /\ nDispatch = 2
    /\ lastReport.dp = 6
    /\ lastOutcome = "dropped"
    /\ read(store, EM, "rms_current") = IntVal(2300)
    /\ read(store, EM, "rms_voltage") = None

\* C3: whatever has been dispatched, the electrical-measurement cluster reads
\* ac_current_multiplier = 1 and ac_current_divisor = 1000, the metering
\* cluster reads unit_of_measure = 0 and divisor = 1000, and no dispatch has
\* written the cache slot of a constant attribute.
C3_ConstantsInvariant ==
    /\ read(store, EM, "ac_current_multiplier") = IntVal(1)
    /\ read(store, EM, "ac_current_divisor") = IntVal(1000)
    /\ read(store, MT, "unit_of_measure") = IntVal(0)
    /\ read(store, MT, "divisor") = IntVal(1000)
    /\ \A c \in Clusters : \A a \in DOMAIN ConstantAttributes(c) : store[c][a] = None

C3_Witness ==
    /\ nDispatch >= 3
    /\ store[EM]["rms_current"] # None
    /\ store[MT]["current_summ_delivered"] # None
    /\ read(store, EM, "ac_current_divisor") = IntVal(1000)
    /\ read(store, MT, "divisor") = IntVal(1000)

\* C6: datapoint 0x06 of DinPowerManufCluster writes the elements of its
\* converter's result positionally: rms_current = value >> 16 and
\* rms_voltage = (value & 0xFFFF) / 10; 0x00010032 gives 1 and 5.0; the
\* result has as many elements as the mapping has attributes.
C6_TupleDispatch ==
    (Dispatched /\ cls = BaseCluster /\ lastReport.dp = 6) =>
      /\ read(store, EM, "rms_current") = IntVal(lastReport.value \div 65536)
      /\ read(store, EM, "rms_voltage") =
            [kind |-> "float", num |-> lastReport.value % 65536, den |-> 10]
      /\ lastReport.value = 65586 =>
            /\ read(store, EM, "rms_current") = IntVal(1)
            /\ read(store, EM, "rms_voltage") = [kind |-> "float", num |-> 50, den |-> 10]
      /\ Len(Split(lastReport.value)) = 2
      /\ Len(dp_to_attribute(cls)[6].attribute_name) = 2

C6_Witness ==
    /\ cls = BaseCluster
    /\ lastReport = [dp |-> 6, value |-> 65586]
    /\ read(store, EM, "rms_current") = IntVal(1)
    /\ read(store, EM, "rms_voltage") = [kind |-> "float", num |-> 50, den |-> 10]

C8_Idempotent ==
    /\ [](\A r \in Reports :
            handle_get_data(cls, handle_get_data(cls, store, r).store, r).store
               = handle_get_data(cls, store, r).store)
    /\ [][ (nDispatch' > nDispatch /\ redelivered') => store' = store ]_vars

C8_Witness ==
    /\ redelivered
    /\ cls = BaseCluster
    /\ lastReport = [dp |-> 6, value |-> 65586]
    /\ nDispatch = 2

\* the cache slots two stores differ in
Changed(s1, s2) ==
    {ca \in UNION {{<<c, a>> : a \in Attributes(c)} : c \in Clusters} :
        s1[ca[1]][ca[2]] # s2[ca[1]][ca[2]]}

\* C9: a dispatch changes only the attribute(s) its mapping entry names on the
\* one target cluster: on the deployed cluster 17 changes only
\* current_summ_delivered of the metering cluster, 18, 19 and 20 only
\* rms_current, active_power and rms_voltage of the electrical-measurement
\* cluster; every other attribute of every cluster is unchanged.
C9_SideEffectLocal ==
    [][ nDispatch' > nDispatch =>
          /\ \A i \in DOMAIN EntriesOf(cls) :
                LET e == EntriesOf(cls)[i] IN
                e.dp = lastReport'.dp =>
                   Changed(store, store') \subseteq
                      {<<e.map.ep_attribute, e.map.attribute_name[n]>> :
                          n \in DOMAIN e.map.attribute_name}
          /\ (cls = DeployedCluster /\ lastReport'.dp \in {17, 18, 19, 20}) =>
                LET t == DeployedTarget(lastReport'.dp) IN
                Changed(store, store') \subseteq {<<t.c, t.a>>}
          /\ (cls = DeployedCluster /\ lastReport'.dp = 17) => store'[EM] = store[EM]
          /\ (cls = DeployedCluster /\ lastReport'.dp \in {18, 19, 20}) =>
                store'[MT] = store[MT]
      ]_vars

C9_Witness ==
    /\ cls = DeployedCluster
    /\ nDispatch = 3
    /\ lastReport = [dp |-> 17, value |-> 2300]
    /\ store[MT]["current_summ_delivered"] = IntVal(2300)
    /\ store[EM]["rms_current"] = IntVal(65586)
    /\ store[EM]["rms_voltage"] = IntVal(230)

\* the response the file builds for a request with sequence number n
Connected(n) ==
    [cmd |-> 37, tsn |-> n, status |-> <<1>>, expect_reply |-> FALSE]

\* how many elements of bag b satisfy Sel
Count(b, Sel(_)) == BagCardinality([x \in {y \in BagToSet(b) : Sel(y)} |-> CopiesIn(x, b)])

\* C4: the response to a connection-status request with sequence number n
\* carries n and the single status byte 0x01, whatever status the request
\* carried and whatever was handled before it.
C4_EchoConnected ==
    /\ [](\A t \in BagToSet(tasks) :
            /\ t.rsp.status = <<1>>
            /\ t.rsp.cmd = 37
            /\ \E q \in BagToSet(requests) : q.tsn = t.rsp.tsn)
    /\ [][ \A q \in Requests :
             requests' = requests (+) SetToBag({q}) =>
                /\ CopiesIn(Task(Connected(q.tsn), "pending"), tasks') >
                      CopiesIn(Task(Connected(q.tsn), "pending"), tasks)
                /\ \A t \in BagToSet(tasks') :
                      CopiesIn(t, tasks') > CopiesIn(t, tasks) => t.rsp = Connected(q.tsn)
       ]_vars

C4_Witness ==
    /\ nDispatch > 0
    /\ BagIn([tsn |-> 7, status |-> <<0>>], requests)
    /\ BagIn([tsn |-> 255, status |-> <<2>>], requests)
    /\ \E t \in BagToSet(tasks) : t.rsp = Connected(7)
    /\ \E t \in BagToSet(tasks) : t.rsp = Connected(255)

\* C5: every request schedules exactly one outbound command 0x25: for each
\* sequence number as many responses have been scheduled (pending, sent or
\* failed) as requests were handled, in whatever order the sends complete.
C5_OneResponsePerRequest ==
    /\ BagCardinality(tasks) = BagCardinality(requests)
    /\ \A n \in TsnValues :
          LET IsReq(q) == q.tsn = n
              IsRsp(t) == t.rsp.tsn = n /\ t.rsp.cmd = 37
          IN Count(tasks, IsRsp) = Count(requests, IsReq)

C5_Witness ==
    /\ BagCardinality(requests) = 3
    /\ CopiesIn(Task(Connected(7), "pending"), tasks) = 2
    /\ CopiesIn(Task(Connected(255), "sent"), tasks) = 1

\* C10: the handler returns SUCCESS without waiting for the send: while
\* responses are pending, after one failed and when none completes, the
\* inbound path stays ready for the next report and request; a failed send
\* does not change the handler's result and is not scheduled again (as many
\* sends were scheduled as requests were handled).
C10_NonBlocking ==
    /\ BagCardinality(requests) > 0 => lastResult = "SUCCESS"
    /\ InboundReady
    /\ BagCardinality(tasks) = BagCardinality(requests)

C10_Witness ==
    /\ Count(tasks, LAMBDA t : t.state = "failed") = 1
    /\ Count(tasks, LAMBDA t : t.state = "pending") = 1
    /\ nDispatch = 1
    /\ lastResult = "SUCCESS"
    /\ store[EM]["active_power"] # None
====
